---- MODULE Spec2Model ----
(***************************************************************************)
(* Model of the retrieval core of LexiVoice:                               *)
(*   backend/core/retriever.py  (FAISSRetriever, the retriever cache)      *)
(* One FAISSRetriever instance with its persisted artifacts, the threads   *)
(* that call load_index / search / build_index on it, and the module-level *)
(* retriever cache with the threads that call get_retriever.               *)
(* Further sections: backend/core/embeddings.py, document_processor.py,    *)
(* and the feedback route (backend/routers/feedback.py, core/crud.py).     *)
(***************************************************************************)
EXTENDS Integers, Sequences, FiniteSets, TLC

\* ------------------------------------------------------------------ bounds
NumLoaders == 2         \* threads that may run load_index on the retriever
MaxChunks == 2          \* largest number of chunks of one persisted build
MaxBuilds == 1          \* build_index calls in one run
MaxTopK == 3            \* largest top_k a caller passes to search
MaxQuery == 1           \* query embeddings are the positions 0..MaxQuery
NumCallers == 2         \* threads that call get_retriever / preload
MaxLen == 5             \* longest text given to clean_text / split_into_chunks
MaxSize == 4            \* largest chunk_size tried on those texts
MaxCleans == 2          \* times clean_text is applied to one text
MaxDocs == 2            \* most documents in one process_documents call
MaxSentences == 3       \* most sentences in the content of a document
NumRequests == 2        \* feedback requests in flight at the same time
MaxQueryLogs == 2       \* query logs created in one run
MaxSubmits == 4         \* feedback submissions handled in one run

\* ------------------------------------------------------- program constants
wait_step == 2          \* retriever.py:218, 0.2 s in tenths of a second
max_wait == 50          \* retriever.py:219, 5.0 s in tenths of a second
DefaultCountries == <<"india", "canada", "usa">>   \* retriever.py:279
max_workers == 2        \* retriever.py:28, ThreadPoolExecutor(max_workers=2)
chunk_size == 500       \* document_processor.py:44 and retriever.py:97

\* ------------------------------------------------------------------- state
VARIABLES
    constructed,    \* __init__ has returned: the instance is visible
    ctor_pc,        \* position of the thread running __init__
    bgQueue,        \* load tasks submitted to _executor, not yet started
    diskIndex,      \* the persisted index artifact  ({country}.faiss)
    diskMeta,       \* the persisted metadata artifact ({country}_metadata.pkl)
    index,          \* self.index
    chunks,         \* self.chunks
    lock,           \* self._loading_lock: the set of holders
    l_pc,           \* per loader: position inside load_index
    l_failAt,       \* per loader: which read raised ("none", "index", "meta")
    l_overlap,      \* per loader: another load was in flight when it called
    l_didRead,      \* per loader: this call read the index artifact
    s_pc,           \* searcher: position inside search
    s_k,            \* searcher: top_k
    s_q,            \* searcher: the query embedding
    s_waited,       \* searcher: waited (tenths of a second)
    s_labels,       \* searcher: (distance, ordinal) pairs from index.search
    s_i,            \* searcher: position in the result loop
    s_used,         \* searcher: the index object index.search ran on
    s_seen,         \* searcher: self.chunks as last read by the loop
    s_results,      \* searcher: results
    s_err,          \* searcher: class of the exception raised, or "none"
    nbuilds,        \* number of build_index calls so far (names the build)
    b_pc,           \* builder: position inside build_index
    b_n,            \* builder: number of chunk_objects
    b_i,            \* builder: chunks appended so far
    b_before,       \* builder: <<index, chunks>> when build_index was called
    b_err,          \* builder: step that raised, or "none"
    cache,          \* _retriever_cache: country -> instance id (0 = no entry)
    created,        \* per country: instance ids constructed so far
    g_op,           \* per caller: "get" (get_retriever) or "preload"
    g_pc,           \* per caller: position inside get_retriever / preload
    g_key,          \* per caller: the country being looked up
    g_todo,         \* per caller: countries left in preload's loop
    g_new,          \* per caller: the instance it constructed (0 = none)
    g_ret,          \* per caller: the instance returned (0 = none)
    g_list,         \* per caller: the countries the call was made with
    g_sync,         \* per caller: loads its constructors ran themselves
    has_files,      \* per country: both persisted artifacts exist
    ex_queue,       \* _executor: load tasks submitted, not yet started
    ex_running,     \* _executor: load tasks a worker is running
    ex_finished,    \* _executor: load tasks that have returned
    sync_loaded,    \* instances whose __init__ ran load_index itself
    emb_instance,   \* _embedding_model_instance (0 = None)
    emb_created,    \* EmbeddingModel instances constructed so far
    emb_of,         \* per country: self.embedding_model of its retriever
    e_pc,           \* per caller: position inside get_embedding_model
    e_key,          \* per caller: country of the retriever it constructs
    e_new,          \* per caller: the EmbeddingModel it constructed
    c_text,         \* chunker: the text at hand (a sequence of characters)
    c_prev,         \* chunker: the text before the last clean_text
    c_cleaned,      \* chunker: times clean_text was applied to the text
    c_size,         \* chunker: self.chunk_size
    c_pc,           \* chunker: "text", or "split" once chunks are returned
    c_chunks,       \* chunker: what split_into_chunks returned
    p_docs,         \* processor: the documents passed to process_documents
    p_size,         \* processor: self.chunk_size
    p_pc,           \* processor: "docs", "returned" or "raised"
    p_out,          \* processor: all_chunks as returned
    p_err,          \* processor: class of the exception raised, or "none"
    query_logs,     \* feedback: the _id values in db.query_logs
    feedback,       \* feedback: db.feedback, in insertion order
    loop,           \* feedback: request whose handler runs on the event loop, or 0
    f_pc,           \* feedback: each request's position in submit_feedback
    f_qid,          \* feedback: each request's feedback.query_id
    f_rating,       \* feedback: each request's feedback.rating
    f_status,       \* feedback: HTTP status of each request's response, 0 = none
    f_id,           \* feedback: feedback_id returned to each request, 0 = none
    f_count         \* feedback: submissions handled so far

ctorVars == <<constructed, ctor_pc, bgQueue>>
diskVars == <<diskIndex, diskMeta>>
memVars == <<index, chunks>>
loadVars == <<lock, l_pc, l_failAt, l_overlap, l_didRead>>
searchVars == <<s_pc, s_k, s_q, s_waited, s_labels, s_i, s_used, s_seen,
                s_results, s_err>>
buildVars == <<nbuilds, b_pc, b_n, b_i, b_before, b_err>>
retrVars == <<ctorVars, diskVars, memVars, loadVars, searchVars, buildVars>>
poolVars == <<has_files, ex_queue, ex_running, ex_finished, sync_loaded>>
regVars == <<cache, created, g_op, g_pc, g_key, g_todo, g_new, g_ret, g_list,
             g_sync, poolVars>>
embVars == <<emb_instance, emb_created, emb_of, e_pc, e_key, e_new>>
chunkVars == <<c_text, c_prev, c_cleaned, c_size, c_pc, c_chunks>>
procVars == <<p_docs, p_size, p_pc, p_out, p_err>>
fbVars == <<query_logs, feedback, loop, f_pc, f_qid, f_rating, f_status, f_id,
            f_count>>
libVars == <<embVars, chunkVars, procVars, fbVars>>
vars == <<retrVars, regVars, libVars>>

\* ------------------------------------------------------------------ values
NoIndex == [gen |-> -1, ntotal |-> 0]       \* self.index = None
Free == {}                      \* the lock is held by nobody
CtorThread == 0                 \* the thread running __init__
Loaders == 1..NumLoaders
AllLoaders == 0..NumLoaders     \* __init__'s fallback load runs as loader 0

\* A FAISS index: the build it holds vectors of, and index.ntotal.
IndexOf(g, n) == [gen |-> g, ntotal |-> n]
\* A dict without the key 'similarity_score'.
NoScore == [num |-> 0, den |-> 0]
\* Chunk metadata dict: the build that produced it and its position there;
\* build_index gives it no 'similarity_score' (retriever.py:113-122).
ChunkOf(g, i) == [gen |-> g, ord |-> i, similarity_score |-> NoScore]
\* The chunk list a build with n chunks produces (ordinals 0..n-1).
ChunkList(g, n) == [i \in 1..n |-> ChunkOf(g, i - 1)]

\* An artifact file: absent, present and readable ("ok") with its content,
\* or present but unreadable ("truncated").
AbsentIndexFile == [state |-> "absent", ix |-> NoIndex]
TruncatedIndexFile == [state |-> "truncated", ix |-> NoIndex]
IndexFile(ix) == [state |-> "ok", ix |-> ix]
AbsentMetaFile == [state |-> "absent", list |-> <<>>]
TruncatedMetaFile == [state |-> "truncated", list |-> <<>>]
MetaFile(list) == [state |-> "ok", list |-> list]

\* ------------------------------------------------------------------- Init
\* The artifacts a previous process left behind: none, or the pair written
\* by one completed save_index (build 0).
InitDisk ==
    \/ diskIndex = AbsentIndexFile /\ diskMeta = AbsentMetaFile
    \/ \E n \in 1..MaxChunks :
          /\ diskIndex = IndexFile(IndexOf(0, n))
          /\ diskMeta = MetaFile(ChunkList(0, n))

InitSearcher ==
    /\ s_pc = "idle" /\ s_k = 0 /\ s_q = 0 /\ s_waited = 0
    /\ s_labels = <<>> /\ s_i = 0 /\ s_used = NoIndex /\ s_seen = <<>>
    /\ s_results = <<>> /\ s_err = "none"

InitBuilder ==
    /\ b_pc = "idle" /\ b_n = 0 /\ b_i = 0
    /\ b_before = <<NoIndex, <<>>>> /\ b_err = "none"

InitRetriever ==
    /\ constructed = FALSE /\ ctor_pc = "start" /\ bgQueue = 0
    /\ InitDisk
    /\ index = NoIndex /\ chunks = <<>>
    /\ lock = Free
    /\ l_pc \in [AllLoaders -> {"idle"}]
    /\ l_failAt \in [AllLoaders -> {"none"}]
    /\ l_overlap \in [AllLoaders -> {FALSE}]
    /\ l_didRead \in [AllLoaders -> {FALSE}]
    /\ InitSearcher
    /\ nbuilds = 0
    /\ InitBuilder

\* --------------------------------------------------- FAISSRetriever.__init__
\* os.path.exists on both artifact paths (retriever.py:64).
ArtifactsExist == diskIndex.state # "absent" /\ diskMeta.state # "absent"

\* __init__ submitting a load task whether or not the artifacts exist.
Construct_SubmitsAlways ==
    /\ ctor_pc = "start"
    /\ index' = NoIndex /\ chunks' = <<>> /\ lock' = Free
    /\ bgQueue' = bgQueue + 1
    /\ ctor_pc' = "done" /\ constructed' = TRUE
    /\ UNCHANGED <<diskVars, l_pc, l_failAt, l_overlap, l_didRead, searchVars,
                   buildVars, regVars, libVars>>

\* __init__: fields set, then either a load task is submitted to _executor,
\* or (submit raised) load_index runs synchronously in the constructor, or
\* (no artifacts) nothing is scheduled.
Construct ==
    /\ ctor_pc = "start"
    /\ index' = NoIndex /\ chunks' = <<>> /\ lock' = Free
    /\ IF ArtifactsExist
       THEN \/ /\ bgQueue' = bgQueue + 1
               /\ ctor_pc' = "done" /\ constructed' = TRUE
               /\ UNCHANGED l_pc
            \/ /\ ctor_pc' = "sync_load"
               /\ l_pc' = [l_pc EXCEPT ![CtorThread] = "acquire"]
               /\ UNCHANGED <<bgQueue, constructed>>
       ELSE /\ ctor_pc' = "done" /\ constructed' = TRUE
            /\ UNCHANGED <<bgQueue, l_pc>>
    /\ UNCHANGED <<diskVars, l_failAt, l_overlap, l_didRead, searchVars,
                   buildVars, regVars, libVars>>

\* __init__ returns after its synchronous fallback load has returned.
ConstructReturn ==
    /\ ctor_pc = "sync_load"
    /\ l_pc[CtorThread] \in {"loaded", "failed"}
    /\ ctor_pc' = "done" /\ constructed' = TRUE
    /\ UNCHANGED <<bgQueue, diskVars, memVars, loadVars, searchVars,
                   buildVars, regVars, libVars>>

\* ------------------------------------------------- FAISSRetriever.load_index
LoadInFlight == {"acquire", "read_index", "read_meta", "reset_index",
                 "reset_chunks", "release_ok", "release_fail"}
LoadBody == LoadInFlight \ {"acquire"}

OtherLoadInFlight(t) == \E u \in AllLoaders \ {t} : l_pc[u] \in LoadInFlight

\* A caller enters load_index (and is about to take the lock).
LoadEnter(t) ==
    /\ l_pc[t] = "idle"
    /\ l_pc' = [l_pc EXCEPT ![t] = "acquire"]
    /\ l_overlap' = [l_overlap EXCEPT ![t] = OtherLoadInFlight(t)]
    /\ UNCHANGED <<lock, l_failAt, l_didRead>>

\* A thread calls load_index directly on the published instance.
LoadCall(t) ==
    /\ constructed
    /\ LoadEnter(t)
    /\ UNCHANGED <<ctorVars, diskVars, memVars, searchVars, buildVars,
                   regVars, libVars>>

\* An executor worker starts the load task __init__ submitted.
ExecutorRun(t) ==
    /\ bgQueue > 0
    /\ bgQueue' = bgQueue - 1
    /\ LoadEnter(t)
    /\ UNCHANGED <<constructed, ctor_pc, diskVars, memVars, searchVars,
                   buildVars, regVars, libVars>>

\* load_index entering its body without waiting for the lock.
LoadAcquire_NoWait(t) ==
    /\ l_pc[t] = "acquire"
    /\ lock' = {t}
    /\ l_pc' = [l_pc EXCEPT ![t] = "read_index"]
    /\ UNCHANGED <<l_failAt, l_overlap, l_didRead>>
    /\ UNCHANGED <<ctorVars, diskVars, memVars, searchVars, buildVars,
                   regVars, libVars>>

\* with self._loading_lock: (retriever.py:176)
LoadAcquire(t) ==
    /\ l_pc[t] = "acquire"
    /\ lock = Free
    /\ lock' = {t}
    /\ l_pc' = [l_pc EXCEPT ![t] = "read_index"]
    /\ UNCHANGED <<l_failAt, l_overlap, l_didRead>>
    /\ UNCHANGED <<ctorVars, diskVars, memVars, searchVars, buildVars,
                   regVars, libVars>>

\* self.index = faiss.read_index(self.index_path) (retriever.py:180).
\* The read raises when the artifact is missing or unreadable, and may
\* raise on an I/O error otherwise.
LoadReadIndex(t) ==
    /\ l_pc[t] = "read_index"
    /\ l_didRead' = [l_didRead EXCEPT ![t] = TRUE]
    /\ \/ /\ diskIndex.state = "ok"
          /\ index' = diskIndex.ix
          /\ l_pc' = [l_pc EXCEPT ![t] = "read_meta"]
          /\ UNCHANGED l_failAt
       \/ /\ l_pc' = [l_pc EXCEPT ![t] = "reset_index"]
          /\ l_failAt' = [l_failAt EXCEPT ![t] = "index"]
          /\ UNCHANGED index
    /\ UNCHANGED <<chunks, lock, l_overlap>>
    /\ UNCHANGED <<ctorVars, diskVars, searchVars, buildVars, regVars, libVars>>

\* load_index going on without installing the metadata it read.
LoadReadMeta_Skips(t) ==
    /\ l_pc[t] = "read_meta"
    /\ \/ /\ diskMeta.state = "ok"
          /\ l_pc' = [l_pc EXCEPT ![t] = "release_ok"]
          /\ UNCHANGED l_failAt
       \/ /\ l_pc' = [l_pc EXCEPT ![t] = "reset_index"]
          /\ l_failAt' = [l_failAt EXCEPT ![t] = "meta"]
    /\ UNCHANGED <<index, chunks, lock, l_overlap, l_didRead>>
    /\ UNCHANGED <<ctorVars, diskVars, searchVars, buildVars, regVars, libVars>>

\* self.chunks = pickle.load(f) (retriever.py:183-184).
LoadReadMeta(t) ==
    /\ l_pc[t] = "read_meta"
    /\ \/ /\ diskMeta.state = "ok"
          /\ chunks' = diskMeta.list
          /\ l_pc' = [l_pc EXCEPT ![t] = "release_ok"]
          /\ UNCHANGED l_failAt
       \/ /\ l_pc' = [l_pc EXCEPT ![t] = "reset_index"]
          /\ l_failAt' = [l_failAt EXCEPT ![t] = "meta"]
          /\ UNCHANGED chunks
    /\ UNCHANGED <<index, lock, l_overlap, l_didRead>>
    /\ UNCHANGED <<ctorVars, diskVars, searchVars, buildVars, regVars, libVars>>

\* except: self.index = None (retriever.py:193)
LoadResetIndex(t) ==
    /\ l_pc[t] = "reset_index"
    /\ index' = NoIndex
    /\ l_pc' = [l_pc EXCEPT ![t] = "reset_chunks"]
    /\ UNCHANGED <<chunks, lock, l_failAt, l_overlap, l_didRead>>
    /\ UNCHANGED <<ctorVars, diskVars, searchVars, buildVars, regVars, libVars>>

\* The except branch without its `self.chunks = []`.
LoadResetChunks_Keeps(t) ==
    /\ l_pc[t] = "reset_chunks"
    /\ l_pc' = [l_pc EXCEPT ![t] = "release_fail"]
    /\ UNCHANGED <<index, chunks, lock, l_failAt, l_overlap, l_didRead>>
    /\ UNCHANGED <<ctorVars, diskVars, searchVars, buildVars, regVars, libVars>>

\* except: self.chunks = [] (retriever.py:194)
LoadResetChunks(t) ==
    /\ l_pc[t] = "reset_chunks"
    /\ chunks' = <<>>
    /\ l_pc' = [l_pc EXCEPT ![t] = "release_fail"]
    /\ UNCHANGED <<index, lock, l_failAt, l_overlap, l_didRead>>
    /\ UNCHANGED <<ctorVars, diskVars, searchVars, buildVars, regVars, libVars>>

\* A load that gets out of the with block only on the success path.
LoadRelease_OnlyOnSuccess(t) ==
    /\ l_pc[t] = "release_ok"
    /\ lock' = Free
    /\ l_pc' = [l_pc EXCEPT ![t] = "loaded"]
    /\ UNCHANGED <<l_failAt, l_overlap, l_didRead>>
    /\ UNCHANGED <<ctorVars, diskVars, memVars, searchVars, buildVars,
                   regVars, libVars>>

\* Leaving the with block releases the lock; load_index returns None on
\* both paths ("loaded" after the reads, "failed" after the except branch).
LoadRelease(t) ==
    /\ l_pc[t] \in {"release_ok", "release_fail"}
    /\ lock' = Free
    /\ l_pc' = [l_pc EXCEPT ![t] =
                  IF l_pc[t] = "release_ok" THEN "loaded" ELSE "failed"]
    /\ UNCHANGED <<l_failAt, l_overlap, l_didRead>>
    /\ UNCHANGED <<ctorVars, diskVars, memVars, searchVars, buildVars,
                   regVars, libVars>>

\* load_index has returned to its caller: the call's frame is gone.
LoadReturn(t) ==
    /\ l_pc[t] \in {"loaded", "failed"}
    /\ t = CtorThread => ctor_pc = "done"
    /\ l_pc' = [l_pc EXCEPT ![t] = "idle"]
    /\ l_failAt' = [l_failAt EXCEPT ![t] = "none"]
    /\ l_overlap' = [l_overlap EXCEPT ![t] = FALSE]
    /\ l_didRead' = [l_didRead EXCEPT ![t] = FALSE]
    /\ UNCHANGED lock
    /\ UNCHANGED <<ctorVars, diskVars, memVars, searchVars, buildVars,
                   regVars, libVars>>

LoadStep(t) ==
    \/ LoadAcquire(t)
    \/ LoadReadIndex(t)
    \/ LoadReadMeta(t)
    \/ LoadResetIndex(t)
    \/ LoadResetChunks(t)
    \/ LoadRelease(t)
    \/ LoadReturn(t)

\* ----------------------------------------------------- FAISSRetriever.search
HugeDistance == 1000000     \* stands for the FLT_MAX faiss reports with label -1
Queries == 0..MaxQuery

\* Squared L2 distance between the query and the vector stored at ordinal i
\* (embeddings abstracted to positions on a line, vector i at position i).
Dist(q, i) == (q - i) * (q - i)

\* The ordinal of S nearest to q; equal distances go to the lower ordinal.
NearestIn(S, q) ==
    CHOOSE i \in S : \A j \in S :
        Dist(q, i) < Dist(q, j) \/ (Dist(q, i) = Dist(q, j) /\ i <= j)

RECURSIVE Ranked(_, _, _)
Ranked(S, q, k) ==
    IF k = 0 THEN <<>>
    ELSE IF S = {} THEN <<[dist |-> HugeDistance, idx |-> -1]>> \o Ranked(S, q, k - 1)
    ELSE LET i == NearestIn(S, q)
         IN <<[dist |-> Dist(q, i), idx |-> i]>> \o Ranked(S \ {i}, q, k - 1)

\* index.search(query_embedding, top_k) on an IndexFlatL2 (retriever.py:233):
\* always top_k rows, nearest first, the rows beyond ntotal filled with
\* label -1.
FaissSearch(ix, q, k) == Ranked(0..(ix.ntotal - 1), q, k)

\* The score taken to be the raw distance.
Similarity_Distance(distance) == [num |-> distance, den |-> 1]

\* similarity = float(1 / (1 + distance)) (retriever.py:242), kept exact as
\* the fraction num/den.
Similarity(distance) == [num |-> 1, den |-> 1 + distance]

\* Python list indexing self.chunks[idx]: negative idx counts from the end.
PyIndexOK(list, idx) == -Len(list) <= idx /\ idx < Len(list)
PyPos(list, idx) == IF idx >= 0 THEN idx + 1 ELSE Len(list) + idx + 1
PyIndex(list, idx) == list[PyPos(list, idx)]

\* search() is entered; `if self.index is None` (retriever.py:213).
SearchCall ==
    /\ constructed
    /\ s_pc = "idle"
    /\ \E k \in 1..MaxTopK, q \in Queries : s_k' = k /\ s_q' = q
    /\ s_waited' = 0
    /\ s_pc' = IF index = NoIndex THEN "wait" ELSE "query"
    /\ UNCHANGED <<s_labels, s_i, s_used, s_seen, s_results, s_err>>
    /\ UNCHANGED <<ctorVars, diskVars, memVars, loadVars, buildVars, regVars,
                   libVars>>

\* A search that gives up at the first look, without waiting.
SearchPoll_NoWait ==
    /\ s_pc = "wait"
    /\ s_pc' = "check" /\ UNCHANGED s_waited
    /\ UNCHANGED <<s_k, s_q, s_labels, s_i, s_used, s_seen, s_results, s_err>>
    /\ UNCHANGED <<ctorVars, diskVars, memVars, loadVars, buildVars, regVars,
                   libVars>>

\* while self.index is None and waited < max_wait: wait; waited += wait_step
\* (retriever.py:220-222).
SearchPoll ==
    /\ s_pc = "wait"
    /\ IF index = NoIndex /\ s_waited < max_wait
       THEN s_waited' = s_waited + wait_step /\ s_pc' = "wait"
       ELSE s_pc' = "check" /\ UNCHANGED s_waited
    /\ UNCHANGED <<s_k, s_q, s_labels, s_i, s_used, s_seen, s_results, s_err>>
    /\ UNCHANGED <<ctorVars, diskVars, memVars, loadVars, buildVars, regVars,
                   libVars>>

\* if self.index is None: raise Exception("Index not loaded for ...")
\* (retriever.py:224-226).
SearchCheck ==
    /\ s_pc = "check"
    /\ IF index = NoIndex
       THEN s_pc' = "raised" /\ s_err' = "Exception"
       ELSE s_pc' = "query" /\ UNCHANGED s_err
    /\ UNCHANGED <<s_k, s_q, s_waited, s_labels, s_i, s_used, s_seen,
                   s_results>>
    /\ UNCHANGED <<ctorVars, diskVars, memVars, loadVars, buildVars, regVars,
                   libVars>>

\* distances, indices = self.index.search(query_embedding, top_k)
\* (retriever.py:229-236); self.index is read again here.
SearchQuery ==
    /\ s_pc = "query"
    /\ IF index = NoIndex
       THEN /\ s_pc' = "raised" /\ s_err' = "AttributeError"
            /\ UNCHANGED <<s_labels, s_i, s_used, s_results>>
       ELSE /\ s_labels' = FaissSearch(index, s_q, s_k)
            /\ s_used' = index
            /\ s_results' = <<>>
            /\ s_i' = 1
            /\ s_pc' = "map_test"
            /\ UNCHANGED s_err
    /\ UNCHANGED <<s_k, s_q, s_waited, s_seen>>
    /\ UNCHANGED <<ctorVars, diskVars, memVars, loadVars, buildVars, regVars,
                   libVars>>

\* for distance, idx in zip(...): if idx < len(self.chunks):
\* (retriever.py:238-239); the loop ends with return results (255).
SearchMapTest ==
    /\ s_pc = "map_test"
    /\ IF s_i > Len(s_labels)
       THEN s_pc' = "returned" /\ UNCHANGED <<s_i, s_seen>>
       ELSE /\ s_seen' = chunks
            /\ IF s_labels[s_i].idx < Len(chunks)
               THEN s_pc' = "map_get" /\ UNCHANGED s_i
               ELSE s_pc' = "map_test" /\ s_i' = s_i + 1
    /\ UNCHANGED <<s_k, s_q, s_waited, s_labels, s_used, s_results, s_err>>
    /\ UNCHANGED <<ctorVars, diskVars, memVars, loadVars, buildVars, regVars,
                   libVars>>

\* chunk['similarity_score'] = similarity on a dict.
WithScore(chunk, similarity) == [chunk EXCEPT !.similarity_score = similarity]

\* The result loop working on the stored dict itself (no .copy()): the
\* score is written into self.chunks[idx].
SearchMapGet_NoCopy ==
    /\ s_pc = "map_get"
    /\ s_seen' = chunks
    /\ IF PyIndexOK(chunks, s_labels[s_i].idx)
       THEN /\ LET pos == PyPos(chunks, s_labels[s_i].idx)
                   chunk == WithScore(chunks[pos], Similarity(s_labels[s_i].dist))
               IN /\ chunks' = [chunks EXCEPT ![pos] = chunk]
                  /\ s_results' = Append(s_results, chunk)
            /\ s_i' = s_i + 1
            /\ s_pc' = "map_test"
            /\ UNCHANGED s_err
       ELSE /\ s_pc' = "raised" /\ s_err' = "IndexError"
            /\ UNCHANGED <<s_results, s_i, chunks>>
    /\ UNCHANGED <<s_k, s_q, s_waited, s_labels, s_used>>
    /\ UNCHANGED <<ctorVars, diskVars, index, loadVars, buildVars, regVars,
                   libVars>>

\* chunk = self.chunks[idx].copy(); chunk['similarity_score'] = ...;
\* results.append(chunk) (retriever.py:240-248): the key is set on the
\* copy, the stored dict keeps its keys.
SearchMapGet ==
    /\ s_pc = "map_get"
    /\ s_seen' = chunks
    /\ IF PyIndexOK(chunks, s_labels[s_i].idx)
       THEN /\ s_results' = Append(s_results,
                   WithScore(PyIndex(chunks, s_labels[s_i].idx),
                             Similarity(s_labels[s_i].dist)))
            /\ s_i' = s_i + 1
            /\ s_pc' = "map_test"
            /\ UNCHANGED s_err
       ELSE /\ s_pc' = "raised" /\ s_err' = "IndexError"
            /\ UNCHANGED <<s_results, s_i>>
    /\ UNCHANGED <<s_k, s_q, s_waited, s_labels, s_used>>
    /\ UNCHANGED <<ctorVars, diskVars, memVars, loadVars, buildVars, regVars,
                   libVars>>

\* The caller has consumed the result (or the exception) of search.
SearchReturn ==
    /\ s_pc \in {"returned", "raised"}
    /\ s_pc' = "idle" /\ s_k' = 0 /\ s_q' = 0 /\ s_waited' = 0
    /\ s_labels' = <<>> /\ s_i' = 0 /\ s_used' = NoIndex /\ s_seen' = <<>>
    /\ s_results' = <<>> /\ s_err' = "none"
    /\ UNCHANGED <<ctorVars, diskVars, memVars, loadVars, buildVars, regVars,
                   libVars>>

SearchStep ==
    \/ SearchPoll
    \/ SearchCheck
    \/ SearchQuery
    \/ SearchMapTest
    \/ SearchMapGet
    \/ SearchReturn

\* ------------------------------------------------ FAISSRetriever.build_index
BuildFail(step) == b_pc' = "failed" /\ b_err' = step

\* build_index() is called on the published instance.
BuildCall ==
    /\ constructed
    /\ b_pc = "idle"
    /\ nbuilds < MaxBuilds
    /\ nbuilds' = nbuilds + 1
    /\ b_pc' = "load_documents"
    /\ b_before' = <<index, chunks>>
    /\ UNCHANGED <<b_n, b_i, b_err>>
    /\ UNCHANGED <<ctorVars, diskVars, memVars, loadVars, searchVars, regVars,
                   libVars>>

\* documents = processor.load_documents(self.country) (retriever.py:93-94);
\* raises FileNotFoundError / JSONDecodeError (document_processor.py:78-83).
BuildLoadDocuments ==
    /\ UNCHANGED nbuilds
    /\ b_pc = "load_documents"
    /\ \/ b_pc' = "process_documents" /\ UNCHANGED b_err
       \/ BuildFail("load_documents")
    /\ UNCHANGED <<b_n, b_i, b_before>>
    /\ UNCHANGED <<ctorVars, diskVars, memVars, loadVars, searchVars, regVars,
                   libVars>>

\* chunk_objects = processor.process_documents(documents) (retriever.py:97);
\* raises KeyError on a document without a required field.
BuildProcessDocuments ==
    /\ UNCHANGED nbuilds
    /\ b_pc = "process_documents"
    /\ \/ \E n \in 0..MaxChunks :
             b_n' = n /\ b_pc' = "clear_chunks" /\ UNCHANGED b_err
       \/ BuildFail("process_documents") /\ UNCHANGED b_n
    /\ UNCHANGED <<b_i, b_before>>
    /\ UNCHANGED <<ctorVars, diskVars, memVars, loadVars, searchVars, regVars,
                   libVars>>

\* self.chunks = [] (retriever.py:100)
BuildClearChunks ==
    /\ UNCHANGED nbuilds
    /\ b_pc = "clear_chunks"
    /\ chunks' = <<>>
    /\ b_i' = 0
    /\ b_pc' = "append_chunks"
    /\ UNCHANGED <<index, b_n, b_before, b_err>>
    /\ UNCHANGED <<ctorVars, diskVars, loadVars, searchVars, regVars, libVars>>

\* for chunk in chunk_objects: self.chunks.append({...}) (retriever.py:103-114)
BuildAppendChunk ==
    /\ UNCHANGED nbuilds
    /\ b_pc = "append_chunks"
    /\ IF b_i < b_n
       THEN /\ chunks' = Append(chunks, ChunkOf(nbuilds, b_i))
            /\ b_i' = b_i + 1
            /\ UNCHANGED b_pc
       ELSE /\ b_pc' = "encode_texts"
            /\ UNCHANGED <<chunks, b_i>>
    /\ UNCHANGED <<index, b_n, b_before, b_err>>
    /\ UNCHANGED <<ctorVars, diskVars, loadVars, searchVars, regVars, libVars>>

\* embeddings = self.embedding_model.encode_texts(texts) and
\* dimension = embeddings.shape[1] (retriever.py:120-125): the model may
\* raise; with no texts the array has no second axis and shape[1] raises.
BuildEncodeTexts ==
    /\ UNCHANGED nbuilds
    /\ b_pc = "encode_texts"
    /\ \/ b_n > 0 /\ b_pc' = "new_index" /\ UNCHANGED b_err
       \/ BuildFail("encode_texts")
    /\ UNCHANGED <<b_n, b_i, b_before>>
    /\ UNCHANGED <<ctorVars, diskVars, memVars, loadVars, searchVars, regVars,
                   libVars>>

\* self.index = faiss.IndexFlatL2(dimension) (retriever.py:129)
BuildNewIndex ==
    /\ UNCHANGED nbuilds
    /\ b_pc = "new_index"
    /\ index' = IndexOf(nbuilds, 0)
    /\ b_pc' = "add_vectors"
    /\ UNCHANGED <<chunks, b_n, b_i, b_before, b_err>>
    /\ UNCHANGED <<ctorVars, diskVars, loadVars, searchVars, regVars, libVars>>

\* self.index.add(embeddings) (retriever.py:132): self.index is read again,
\* the vectors go to whatever object it refers to now.
BuildAddVectors ==
    /\ UNCHANGED nbuilds
    /\ b_pc = "add_vectors"
    /\ IF index = NoIndex
       THEN BuildFail("add_vectors") /\ UNCHANGED index
       ELSE /\ index' = [index EXCEPT !.ntotal = @ + b_n]
            /\ b_pc' = "write_index"
            /\ UNCHANGED b_err
    /\ UNCHANGED <<chunks, b_n, b_i, b_before>>
    /\ UNCHANGED <<ctorVars, diskVars, loadVars, searchVars, regVars, libVars>>

\* save_index(): faiss.write_index(self.index, self.index_path)
\* (retriever.py:134, 152-155). A failed write leaves the old file or an
\* unreadable one.
BuildWriteIndex ==
    /\ UNCHANGED nbuilds
    /\ b_pc = "write_index"
    /\ \/ /\ index # NoIndex
          /\ diskIndex' = IndexFile(index)
          /\ b_pc' = "write_metadata" /\ UNCHANGED b_err
       \/ /\ BuildFail("write_index")
          /\ \/ UNCHANGED diskIndex
             \/ index # NoIndex /\ diskIndex' = TruncatedIndexFile
    /\ UNCHANGED <<diskMeta, b_n, b_i, b_before>>
    /\ UNCHANGED <<ctorVars, memVars, loadVars, searchVars, regVars, libVars>>

\* save_index(): with open(self.metadata_path, 'wb') as f:
\* pickle.dump(self.chunks, f) (retriever.py:159-160). open() may raise
\* (file untouched); after open() the file is truncated until dump ends.
BuildWriteMetadata ==
    /\ UNCHANGED nbuilds
    /\ b_pc = "write_metadata"
    /\ \/ /\ diskMeta' = MetaFile(chunks)
          /\ b_pc' = "built" /\ UNCHANGED b_err
       \/ /\ BuildFail("write_metadata")
          /\ \/ UNCHANGED diskMeta
             \/ diskMeta' = TruncatedMetaFile
    /\ UNCHANGED <<diskIndex, b_n, b_i, b_before>>
    /\ UNCHANGED <<ctorVars, memVars, loadVars, searchVars, regVars, libVars>>

\* build_index has returned (or raised) to its caller.
BuildReturn ==
    /\ b_pc \in {"built", "failed"}
    /\ b_pc' = "idle" /\ b_n' = 0 /\ b_i' = 0
    /\ b_before' = <<NoIndex, <<>>>> /\ b_err' = "none"
    /\ UNCHANGED nbuilds
    /\ UNCHANGED <<ctorVars, diskVars, memVars, loadVars, searchVars, regVars,
                   libVars>>

BuildStep ==
    \/ BuildLoadDocuments
    \/ BuildProcessDocuments
    \/ BuildClearChunks
    \/ BuildAppendChunk
    \/ BuildEncodeTexts
    \/ BuildNewIndex
    \/ BuildAddVectors
    \/ BuildWriteIndex
    \/ BuildWriteMetadata
    \/ BuildReturn

\* ------------------------------------- _retriever_cache, get_retriever, preload
Countries == {"india", "canada", "usa"}
Callers == 1..NumCallers
\* The lists preload_retrievers is called with: the default and single keys.
PreloadLists == {DefaultCountries} \cup {<<c>> : c \in Countries}

InitCallers ==
    /\ cache = [c \in Countries |-> 0]
    /\ created = [c \in Countries |-> {}]
    /\ g_op \in [Callers -> {"none"}]
    /\ g_pc \in [Callers -> {"idle"}]
    /\ g_key \in [Callers -> {"none"}]
    /\ g_todo \in [Callers -> {<<>>}]
    /\ g_new \in [Callers -> {0}]
    /\ g_ret \in [Callers -> {0}]
    /\ g_list \in [Callers -> {<<>>}]
    /\ g_sync \in [Callers -> {{}}]

\* The executor is idle; files says which countries have persisted artifacts.
InitPool(files) ==
    /\ has_files = files
    /\ ex_queue = <<>> /\ ex_running = {} /\ ex_finished = {}
    /\ sync_loaded = {}

\* No country has persisted artifacts (nothing was built yet).
NoFiles == [c \in Countries |-> FALSE]

InitRegistry == InitCallers /\ InitPool(NoFiles)

\* get_retriever(country) is entered (retriever.py:289).
GetRetrieverCall(t, c) ==
    /\ g_pc[t] = "idle"
    /\ g_op' = [g_op EXCEPT ![t] = "get"]
    /\ g_key' = [g_key EXCEPT ![t] = c]
    /\ g_list' = [g_list EXCEPT ![t] = <<c>>]
    /\ g_pc' = [g_pc EXCEPT ![t] = "check"]
    /\ UNCHANGED <<cache, created, g_todo, g_new, g_ret, g_sync, poolVars>>
    /\ UNCHANGED <<retrVars, libVars>>

\* preload_retrievers(countries) is entered; the loop takes the first
\* country (retriever.py:272-281).
PreloadCall(t, cs) ==
    /\ g_pc[t] = "idle"
    /\ g_op' = [g_op EXCEPT ![t] = "preload"]
    /\ g_key' = [g_key EXCEPT ![t] = Head(cs)]
    /\ g_todo' = [g_todo EXCEPT ![t] = Tail(cs)]
    /\ g_list' = [g_list EXCEPT ![t] = cs]
    /\ g_pc' = [g_pc EXCEPT ![t] = "check"]
    /\ UNCHANGED <<cache, created, g_new, g_ret, g_sync, poolVars>>
    /\ UNCHANGED <<retrVars, libVars>>

\* After one country is dealt with: get_retriever goes to its return, the
\* preload loop to its next country or to its return.
AfterCountry(t) ==
    IF g_op[t] = "preload" /\ g_todo[t] # <<>>
    THEN /\ g_key' = [g_key EXCEPT ![t] = Head(g_todo[t])]
         /\ g_todo' = [g_todo EXCEPT ![t] = Tail(g_todo[t])]
         /\ g_pc' = [g_pc EXCEPT ![t] = "check"]
    ELSE /\ g_pc' = [g_pc EXCEPT ![t] = "return"]
         /\ UNCHANGED <<g_key, g_todo>>

\* The membership test left out: every call constructs.
CacheCheck_Always(t) ==
    /\ g_pc[t] = "check"
    /\ g_pc' = [g_pc EXCEPT ![t] = "construct"]
    /\ UNCHANGED <<g_key, g_todo>>
    /\ UNCHANGED <<cache, created, g_op, g_new, g_ret, g_list, g_sync,
                   poolVars>>
    /\ UNCHANGED <<retrVars, libVars>>

\* if country not in _retriever_cache: (retriever.py:282, 301)
CacheCheck(t) ==
    /\ g_pc[t] = "check"
    /\ IF cache[g_key[t]] = 0
       THEN g_pc' = [g_pc EXCEPT ![t] = "construct"] /\ UNCHANGED <<g_key, g_todo>>
       ELSE AfterCountry(t)
    /\ UNCHANGED <<cache, created, g_op, g_new, g_ret, g_list, g_sync,
                   poolVars>>
    /\ UNCHANGED <<retrVars, libVars>>

\* FAISSRetriever(country) constructing without submitting any load.
CacheConstruct_NoSubmit(t) ==
    /\ g_pc[t] = "construct"
    /\ LET id == Cardinality(created[g_key[t]]) + 1
       IN /\ created' = [created EXCEPT ![g_key[t]] = @ \cup {id}]
          /\ g_new' = [g_new EXCEPT ![t] = id]
    /\ g_pc' = [g_pc EXCEPT ![t] = "store"]
    /\ UNCHANGED <<cache, g_op, g_key, g_todo, g_ret, g_list, g_sync, poolVars>>
    /\ UNCHANGED <<retrVars, libVars>>

\* FAISSRetriever(country): a new instance (retriever.py:284, 303). Its
\* __init__ submits the instance's load_index to _executor when both
\* artifacts exist, and runs it itself when submit raises
\* (retriever.py:64-73).
CacheConstruct(t) ==
    /\ g_pc[t] = "construct"
    /\ LET id == Cardinality(created[g_key[t]]) + 1
           task == <<g_key[t], id>>
       IN /\ created' = [created EXCEPT ![g_key[t]] = @ \cup {id}]
          /\ g_new' = [g_new EXCEPT ![t] = id]
          /\ IF has_files[g_key[t]]
             THEN \/ /\ ex_queue' = Append(ex_queue, task)
                     /\ UNCHANGED <<sync_loaded, g_sync>>
                  \/ /\ sync_loaded' = sync_loaded \cup {task}
                     /\ g_sync' = [g_sync EXCEPT ![t] = @ \cup {task}]
                     /\ UNCHANGED ex_queue
             ELSE UNCHANGED <<ex_queue, sync_loaded, g_sync>>
    /\ g_pc' = [g_pc EXCEPT ![t] = "store"]
    /\ UNCHANGED <<cache, g_op, g_key, g_todo, g_ret, g_list>>
    /\ UNCHANGED <<has_files, ex_running, ex_finished>>
    /\ UNCHANGED <<retrVars, libVars>>

\* _retriever_cache[country] = <the new instance> (retriever.py:284, 303)
CacheStore(t) ==
    /\ g_pc[t] = "store"
    /\ cache' = [cache EXCEPT ![g_key[t]] = g_new[t]]
    /\ AfterCountry(t)
    /\ UNCHANGED <<created, g_op, g_new, g_ret, g_list, g_sync, poolVars>>
    /\ UNCHANGED <<retrVars, libVars>>

\* return _retriever_cache[country] (retriever.py:305); preload returns
\* the cache itself (retriever.py:286).
CacheReturn(t) ==
    /\ g_pc[t] = "return"
    /\ g_ret' = [g_ret EXCEPT ![t] =
                   IF g_op[t] = "get" THEN cache[g_key[t]] ELSE 0]
    /\ g_pc' = [g_pc EXCEPT ![t] = "done"]
    /\ UNCHANGED <<cache, created, g_op, g_key, g_todo, g_new, g_list, g_sync,
                   poolVars>>
    /\ UNCHANGED <<retrVars, libVars>>

\* The caller goes on with the instance it got.
CallerDone(t) ==
    /\ g_pc[t] = "done"
    /\ g_op' = [g_op EXCEPT ![t] = "none"]
    /\ g_pc' = [g_pc EXCEPT ![t] = "idle"]
    /\ g_key' = [g_key EXCEPT ![t] = "none"]
    /\ g_todo' = [g_todo EXCEPT ![t] = <<>>]
    /\ g_new' = [g_new EXCEPT ![t] = 0]
    /\ g_ret' = [g_ret EXCEPT ![t] = 0]
    /\ g_list' = [g_list EXCEPT ![t] = <<>>]
    /\ g_sync' = [g_sync EXCEPT ![t] = {}]
    /\ UNCHANGED <<cache, created, poolVars>>
    /\ UNCHANGED <<retrVars, libVars>>

\* A pool whose workers are not limited in number.
WorkerStart_Unbounded ==
    /\ ex_queue # <<>>
    /\ ex_running' = ex_running \cup {Head(ex_queue)}
    /\ ex_queue' = Tail(ex_queue)
    /\ UNCHANGED <<has_files, ex_finished, sync_loaded>>
    /\ UNCHANGED <<cache, created, g_op, g_pc, g_key, g_todo, g_new, g_ret,
                   g_list, g_sync>>
    /\ UNCHANGED <<retrVars, libVars>>

\* A worker of _executor takes the oldest submitted task; at most
\* max_workers tasks run at a time (retriever.py:28).
WorkerStart ==
    /\ ex_queue # <<>>
    /\ Cardinality(ex_running) < max_workers
    /\ ex_running' = ex_running \cup {Head(ex_queue)}
    /\ ex_queue' = Tail(ex_queue)
    /\ UNCHANGED <<has_files, ex_finished, sync_loaded>>
    /\ UNCHANGED <<cache, created, g_op, g_pc, g_key, g_todo, g_new, g_ret,
                   g_list, g_sync>>
    /\ UNCHANGED <<retrVars, libVars>>

\* The load_index a worker runs returns (retriever.py:169-195).
WorkerFinish(task) ==
    /\ task \in ex_running
    /\ ex_running' = ex_running \ {task}
    /\ ex_finished' = ex_finished \cup {task}
    /\ UNCHANGED <<has_files, ex_queue, sync_loaded>>
    /\ UNCHANGED <<cache, created, g_op, g_pc, g_key, g_todo, g_new, g_ret,
                   g_list, g_sync>>
    /\ UNCHANGED <<retrVars, libVars>>

\* ------------------------------------ embeddings.py: get_embedding_model
InitEmbedding ==
    /\ emb_instance = 0
    /\ emb_created = {}
    /\ emb_of = [c \in Countries |-> 0]
    /\ e_pc \in [Callers -> {"idle"}]
    /\ e_key \in [Callers -> {"none"}]
    /\ e_new \in [Callers -> {0}]

\* FAISSRetriever(country).__init__ reaches self.embedding_model =
\* get_embedding_model() (retriever.py:52): the function is entered.
GetEmbeddingModelCall(t, c) ==
    /\ e_pc[t] = "idle"
    /\ e_key' = [e_key EXCEPT ![t] = c]
    /\ e_pc' = [e_pc EXCEPT ![t] = "check"]
    /\ UNCHANGED <<emb_instance, emb_created, emb_of, e_new>>
    /\ UNCHANGED <<retrVars, regVars, chunkVars, procVars, fbVars>>

\* if _embedding_model_instance is None: (embeddings.py:149)
EmbCheck(t) ==
    /\ e_pc[t] = "check"
    /\ e_pc' = [e_pc EXCEPT ![t] =
                  IF emb_instance = 0 THEN "construct" ELSE "return"]
    /\ UNCHANGED <<emb_instance, emb_created, emb_of, e_key, e_new>>
    /\ UNCHANGED <<retrVars, regVars, chunkVars, procVars, fbVars>>

\* EmbeddingModel(): the model is loaded (embeddings.py:151, 36-58).
EmbConstruct(t) ==
    /\ e_pc[t] = "construct"
    /\ LET id == Cardinality(emb_created) + 1
       IN /\ emb_created' = emb_created \cup {id}
          /\ e_new' = [e_new EXCEPT ![t] = id]
    /\ e_pc' = [e_pc EXCEPT ![t] = "store"]
    /\ UNCHANGED <<emb_instance, emb_of, e_key>>
    /\ UNCHANGED <<retrVars, regVars, chunkVars, procVars, fbVars>>

\* _embedding_model_instance = <the new model> (embeddings.py:151)
EmbStore(t) ==
    /\ e_pc[t] = "store"
    /\ emb_instance' = e_new[t]
    /\ e_pc' = [e_pc EXCEPT ![t] = "return"]
    /\ UNCHANGED <<emb_created, emb_of, e_key, e_new>>
    /\ UNCHANGED <<retrVars, regVars, chunkVars, procVars, fbVars>>

\* return _embedding_model_instance (embeddings.py:153); the constructor
\* keeps it in self.embedding_model (retriever.py:52) and goes on.
EmbReturn(t) ==
    /\ e_pc[t] = "return"
    /\ emb_of' = [emb_of EXCEPT ![e_key[t]] = emb_instance]
    /\ e_pc' = [e_pc EXCEPT ![t] = "idle"]
    /\ e_key' = [e_key EXCEPT ![t] = "none"]
    /\ e_new' = [e_new EXCEPT ![t] = 0]
    /\ UNCHANGED <<emb_instance, emb_created>>
    /\ UNCHANGED <<retrVars, regVars, chunkVars, procVars, fbVars>>

\* ------------------------------------ document_processor.py: the chunker
\* Characters, by the classes the regular expressions tell apart: a letter,
\* a sentence end, the space, another whitespace character (not printable),
\* and a character that is neither printable nor whitespace.
Chars == {"a", ".", " ", "\n", "x01"}
IsSpace(c) == c \in {" ", "\n"}              \* \s
IsPrintable(c) == c \in {"a", ".", " "}      \* [\x20-\x7E]
IsStop(c) == c = "."                         \* [.!?]

\* The texts of length n, and of length at most n.
TextsOfLen(n) == [1..n -> Chars]
Texts(n) == UNION {TextsOfLen(k) : k \in 0..n}

\* The position where the whitespace run that starts at i ends.
RunEnd(text, i) ==
    CHOOSE j \in i..Len(text) :
        /\ j = Len(text) \/ ~IsSpace(text[j + 1])
        /\ \A k \in i..j : IsSpace(text[k])

\* re.sub(r'\s+', ' ', text) (document_processor.py:98): every maximal run
\* of whitespace becomes one space.
RECURSIVE CollapseSpace(_)
CollapseSpace(text) ==
    IF text = <<>> THEN <<>>
    ELSE IF IsSpace(Head(text))
         THEN <<" ">> \o CollapseSpace(SubSeq(text, RunEnd(text, 1) + 1, Len(text)))
         ELSE <<Head(text)>> \o CollapseSpace(Tail(text))

\* re.sub(r'[^\x20-\x7E]', '', text) (document_processor.py:101)
RemoveNonPrintable(text) == SelectSeq(text, IsPrintable)

\* str.strip(): leading and trailing whitespace removed.
Strip(text) ==
    LET keep == {i \in 1..Len(text) : ~IsSpace(text[i])}
    IN IF keep = {} THEN <<>>
       ELSE SubSeq(text, CHOOSE i \in keep : \A j \in keep : i <= j,
                         CHOOSE i \in keep : \A j \in keep : i >= j)

\* clean_text (document_processor.py:85-103)
clean_text(text) == Strip(RemoveNonPrintable(CollapseSpace(text)))

\* Where the matches of (?<=[.!?])\s+ start: a whitespace character right
\* after a sentence end.
SplitStarts(text) ==
    {i \in 2..Len(text) : IsSpace(text[i]) /\ IsStop(text[i - 1])}

\* The k-th smallest element of a set of numbers.
Kth(S, k) == CHOOSE x \in S : Cardinality({y \in S : y < x}) = k - 1

\* re.split(r'(?<=[.!?])\s+', text) (document_processor.py:129): the pieces
\* between the matches, each match a whole whitespace run.
ReSplit(text) ==
    LET S == SplitStarts(text)
        m == Cardinality(S)
    IN [k \in 1..(m + 1) |->
          SubSeq(text,
                 IF k = 1 THEN 1 ELSE RunEnd(text, Kth(S, k - 1)) + 1,
                 IF k = m + 1 THEN Len(text) ELSE Kth(S, k) - 1)]

\* The loop closing a chunk before every sentence.
RECURSIVE ChunkLoop_OnePerSentence(_, _, _, _)
ChunkLoop_OnePerSentence(sentences, current_chunk, out, size) ==
    IF sentences = <<>>
    THEN IF current_chunk # <<>> THEN Append(out, Strip(current_chunk))
         ELSE out
    ELSE ChunkLoop_OnePerSentence(Tail(sentences), Head(sentences),
             IF current_chunk # <<>> THEN Append(out, Strip(current_chunk))
             ELSE out, size)

\* The loop with the joining space left out of the size test.
RECURSIVE ChunkLoop_NoSeparator(_, _, _, _)
ChunkLoop_NoSeparator(sentences, current_chunk, out, size) ==
    IF sentences = <<>>
    THEN IF current_chunk # <<>> THEN Append(out, Strip(current_chunk))
         ELSE out
    ELSE LET sentence == Head(sentences)
         IN IF Len(current_chunk) + Len(sentence) <= size
            THEN ChunkLoop_NoSeparator(Tail(sentences),
                     IF current_chunk # <<>>
                     THEN current_chunk \o <<" ">> \o sentence
                     ELSE sentence,
                     out, size)
            ELSE ChunkLoop_NoSeparator(Tail(sentences), sentence,
                     IF current_chunk # <<>>
                     THEN Append(out, Strip(current_chunk))
                     ELSE out,
                     size)

\* for sentence in sentences: ... (document_processor.py:134-147): the
\* sentence joins current_chunk while the chunk stays within size, else
\* current_chunk is closed (stripped, appended) and the sentence starts the
\* next one; the last current_chunk is closed after the loop.
RECURSIVE ChunkLoop(_, _, _, _)
ChunkLoop(sentences, current_chunk, out, size) ==
    IF sentences = <<>>
    THEN IF current_chunk # <<>> THEN Append(out, Strip(current_chunk))
         ELSE out
    ELSE LET sentence == Head(sentences)
         IN IF Len(current_chunk) + Len(sentence) + 1 <= size
            THEN ChunkLoop(Tail(sentences),
                     IF current_chunk # <<>>
                     THEN current_chunk \o <<" ">> \o sentence
                     ELSE sentence,
                     out, size)
            ELSE ChunkLoop(Tail(sentences), sentence,
                     IF current_chunk # <<>>
                     THEN Append(out, Strip(current_chunk))
                     ELSE out,
                     size)

\* A text longer than size cut to its first size characters.
split_into_chunks_Cut(text, size) ==
    IF Len(text) <= size THEN <<text>>
    ELSE <<SubSeq(text, 1, size)>>

\* split_into_chunks (document_processor.py:105-149)
split_into_chunks(text, size) ==
    IF Len(text) <= size THEN <<text>>
    ELSE ChunkLoop(ReSplit(text), <<>>, <<>>, size)

InitChunker(text, size) ==
    /\ c_text = text /\ c_prev = text /\ c_cleaned = 0
    /\ c_size = size
    /\ c_pc = "text" /\ c_chunks = <<>>

\* clean_text is applied to the text at hand.
CleanText ==
    /\ c_pc = "text"
    /\ c_cleaned < MaxCleans
    /\ c_prev' = c_text
    /\ c_text' = clean_text(c_text)
    /\ c_cleaned' = c_cleaned + 1
    /\ UNCHANGED <<c_size, c_pc, c_chunks>>
    /\ UNCHANGED <<retrVars, regVars, embVars, procVars, fbVars>>

\* split_into_chunks is applied to the text at hand.
SplitIntoChunks ==
    /\ c_pc = "text"
    /\ c_chunks' = split_into_chunks(c_text, c_size)
    /\ c_pc' = "split"
    /\ UNCHANGED <<c_text, c_prev, c_cleaned, c_size>>
    /\ UNCHANGED <<retrVars, regVars, embVars, procVars, fbVars>>

\* ----------------------------- document_processor.py: process_documents
\* The keys of a document dictionary: those read with doc[...] and those
\* read with doc.get(..., '') (document_processor.py:170-183).
RequiredKeys == {"content", "title", "country", "category"}
OptionalKeys == {"section", "source_url"}
AllKeys == RequiredKeys \cup OptionalKeys

\* The key sets of the documents tried: complete, without the optional
\* keys, and with one required key missing.
DocShapes ==
    {AllKeys, RequiredKeys} \cup {AllKeys \ {k} : k \in RequiredKeys}

\* A content of n sentences, one space between them.
RECURSIVE ContentOf(_)
ContentOf(n) ==
    IF n = 0 THEN <<>>
    ELSE IF n = 1 THEN <<"a", ".">>
    ELSE <<"a", ".", " ">> \o ContentOf(n - 1)

\* The i-th document of a batch, with the given content and keys; every
\* other value names the document.
DocumentOf(i, content, keys) ==
    LET full == [content |-> content,
                 title |-> <<"title", i>>,
                 section |-> <<"section", i>>,
                 source_url |-> <<"source_url", i>>,
                 country |-> <<"country", i>>,
                 category |-> <<"category", i>>]
    IN [k \in keys |-> full[k]]

\* The batches of n documents.
BatchesOf(n) ==
    {[i \in 1..n |-> DocumentOf(i, ContentOf(pick[i][1]), pick[i][2])] :
        pick \in [1..n -> (0..MaxSentences) \X DocShapes]}
\* The batches of at most n documents.
BatchesUpTo(n) == UNION {BatchesOf(k) : k \in 0..n}

\* The chunk sizes tried on them: one sentence, and two sentences, a chunk.
DocSizes == {Len(ContentOf(1)), Len(ContentOf(2))}

\* doc.get(key, default)
Get(doc, key, default) == IF key \in DOMAIN doc THEN doc[key] ELSE default

\* The first doc[...] lookup that raises KeyError, in the order the loop
\* body evaluates them (document_processor.py:170-183), or "none".
FirstMissing(doc) ==
    IF "content" \notin DOMAIN doc THEN "content"
    ELSE IF "title" \notin DOMAIN doc THEN "title"
    ELSE IF "country" \notin DOMAIN doc THEN "country"
    ELSE IF "category" \notin DOMAIN doc THEN "category"
    ELSE "none"

\* The chunks of one document numbered from 1.
DocumentChunks_OneBased(doc, size) ==
    LET text_chunks == split_into_chunks(clean_text(doc["content"]), size)
    IN [idx \in 1..Len(text_chunks) |->
          [text |-> text_chunks[idx],
           title |-> doc["title"],
           section |-> Get(doc, "section", <<>>),
           source_url |-> Get(doc, "source_url", <<>>),
           country |-> doc["country"],
           category |-> doc["category"],
           chunk_id |-> idx,
           total_chunks |-> Len(text_chunks)]]

\* The DocumentChunk objects of one document: clean_text, split_into_chunks,
\* then one chunk per text with enumerate's idx (from 0) as chunk_id
\* (document_processor.py:170-187). The empty default '' of doc.get is <<>>.
DocumentChunks(doc, size) ==
    LET text_chunks == split_into_chunks(clean_text(doc["content"]), size)
    IN [idx \in 1..Len(text_chunks) |->
          [text |-> text_chunks[idx],
           title |-> doc["title"],
           section |-> Get(doc, "section", <<>>),
           source_url |-> Get(doc, "source_url", <<>>),
           country |-> doc["country"],
           category |-> doc["category"],
           chunk_id |-> idx - 1,
           total_chunks |-> Len(text_chunks)]]

\* process_documents (document_processor.py:151-190): the chunks of the
\* documents in order, or the KeyError of the first document that lacks a
\* required key (nothing is returned then).
RECURSIVE process_documents(_, _)
process_documents(documents, size) ==
    IF documents = <<>> THEN [err |-> "none", all_chunks |-> <<>>]
    ELSE IF FirstMissing(Head(documents)) # "none"
         THEN [err |-> "KeyError", all_chunks |-> <<>>]
    ELSE LET rest == process_documents(Tail(documents), size)
         IN IF rest.err # "none" THEN rest
            ELSE [err |-> "none",
                  all_chunks |-> DocumentChunks(Head(documents), size)
                                    \o rest.all_chunks]

InitProcessor(documents, size) ==
    /\ p_docs = documents /\ p_size = size
    /\ p_pc = "docs" /\ p_out = <<>> /\ p_err = "none"

\* process_documents is applied to the documents.
ProcessDocuments ==
    /\ p_pc = "docs"
    /\ LET r == process_documents(p_docs, p_size)
       IN /\ p_pc' = IF r.err = "none" THEN "returned" ELSE "raised"
          /\ p_out' = r.all_chunks
          /\ p_err' = r.err
    /\ UNCHANGED <<p_docs, p_size>>
    /\ UNCHANGED <<retrVars, regVars, embVars, chunkVars, fbVars>>

\* ------------------------------------ routers/feedback.py: submit_feedback
\* The route handlers are coroutines ("async def") served by the one event
\* loop that uvicorn.run starts (main.py:160); submit_feedback contains no
\* await, so from its first statement to its response it keeps the loop, and
\* the pymongo calls it makes are blocking calls on that loop.
Requests == 1..NumRequests
QueryIds == 1..MaxQueryLogs       \* the _id values insert_one hands out
Ratings == {1, 5}                 \* schemas.py:68, ge=1, le=5

InitFeedback ==
    /\ query_logs = {}
    /\ feedback = <<>>
    /\ loop = 0
    /\ f_pc = [r \in Requests |-> "idle"]
    /\ f_qid = [r \in Requests |-> 1]
    /\ f_rating = [r \in Requests |-> 1]
    /\ f_status = [r \in Requests |-> 0]
    /\ f_id = [r \in Requests |-> 0]
    /\ f_count = 0

FeedbackOthers == <<retrVars, regVars, embVars, chunkVars, procVars>>

\* The handler of request r may take its next step: a coroutine that does
\* not await is not interleaved with another one on the same loop.
OnLoop_Threaded(r) == TRUE

OnLoop(r) == loop \in {0, r}

\* The feedback documents stored for query_id q (find_one's matches).
FeedbackFor(q) == {i \in 1..Len(feedback) : feedback[i].query_id = q}

\* QueryLogCRUD.create_query_log, called by the chat handlers: insert_one
\* stores a document under a fresh _id.
CreateQueryLog ==
    /\ loop = 0
    /\ Cardinality(query_logs) < MaxQueryLogs
    /\ query_logs' = query_logs \cup {Cardinality(query_logs) + 1}
    /\ UNCHANGED <<feedback, loop, f_pc, f_qid, f_rating, f_status, f_id,
                   f_count>>
    /\ UNCHANGED FeedbackOthers

\* POST /feedback arrives and its handler starts.
SubmitFeedback(r, q, rating) ==
    /\ f_pc[r] = "idle"
    /\ f_count < MaxSubmits
    /\ OnLoop(r)
    /\ loop' = r
    /\ f_pc' = [f_pc EXCEPT ![r] = "get_query_log"]
    /\ f_qid' = [f_qid EXCEPT ![r] = q]
    /\ f_rating' = [f_rating EXCEPT ![r] = rating]
    /\ f_status' = [f_status EXCEPT ![r] = 0]
    /\ f_id' = [f_id EXCEPT ![r] = 0]
    /\ f_count' = f_count + 1
    /\ UNCHANGED <<query_logs, feedback>>
    /\ UNCHANGED FeedbackOthers

\* Step 1: query_log = get_query_log_by_id(...); 404 when there is none.
FeedbackGetQueryLog(r) ==
    /\ f_pc[r] = "get_query_log"
    /\ OnLoop(r)
    /\ IF f_qid[r] \in query_logs
          THEN /\ f_pc' = [f_pc EXCEPT ![r] = "get_feedback"]
               /\ UNCHANGED f_status
          ELSE /\ f_pc' = [f_pc EXCEPT ![r] = "respond"]
               /\ f_status' = [f_status EXCEPT ![r] = 404]
    /\ UNCHANGED <<query_logs, feedback, loop, f_qid, f_rating, f_id, f_count>>
    /\ UNCHANGED FeedbackOthers

\* Step 2: existing_feedback = get_feedback_by_query_id(...); 409 when found.
FeedbackGetExisting(r) ==
    /\ f_pc[r] = "get_feedback"
    /\ OnLoop(r)
    /\ IF FeedbackFor(f_qid[r]) # {}
          THEN /\ f_pc' = [f_pc EXCEPT ![r] = "respond"]
               /\ f_status' = [f_status EXCEPT ![r] = 409]
          ELSE /\ f_pc' = [f_pc EXCEPT ![r] = "create_feedback"]
               /\ UNCHANGED f_status
    /\ UNCHANGED <<query_logs, feedback, loop, f_qid, f_rating, f_id, f_count>>
    /\ UNCHANGED FeedbackOthers

\* Step 3: FeedbackCRUD.create_feedback inserts the document; the response
\* is 201 with the inserted id.
FeedbackCreate(r) ==
    /\ f_pc[r] = "create_feedback"
    /\ OnLoop(r)
    /\ feedback' = Append(feedback, [id |-> Len(feedback) + 1,
                                     query_id |-> f_qid[r],
                                     rating |-> f_rating[r]])
    /\ f_id' = [f_id EXCEPT ![r] = Len(feedback) + 1]
    /\ f_status' = [f_status EXCEPT ![r] = 201]
    /\ f_pc' = [f_pc EXCEPT ![r] = "respond"]
    /\ UNCHANGED <<query_logs, loop, f_qid, f_rating, f_count>>
    /\ UNCHANGED FeedbackOthers

\* The handler returns or raises its HTTPException: the response is sent,
\* the handler's locals are gone and the loop is free for the next request.
FeedbackRespond(r) ==
    /\ f_pc[r] = "respond"
    /\ OnLoop(r)
    /\ f_pc' = [f_pc EXCEPT ![r] = "idle"]
    /\ f_qid' = [f_qid EXCEPT ![r] = 1]
    /\ f_rating' = [f_rating EXCEPT ![r] = 1]
    /\ f_status' = [f_status EXCEPT ![r] = 0]
    /\ f_id' = [f_id EXCEPT ![r] = 0]
    /\ loop' = 0
    /\ UNCHANGED <<query_logs, feedback, f_count>>
    /\ UNCHANGED FeedbackOthers

FeedbackStep(r) ==
    \/ \E q \in QueryIds, rating \in Ratings : SubmitFeedback(r, q, rating)
    \/ FeedbackGetQueryLog(r)
    \/ FeedbackGetExisting(r)
    \/ FeedbackCreate(r)
    \/ FeedbackRespond(r)

\* ---------------------------------------------------------- specifications
InitLibrary ==
    /\ InitEmbedding
    /\ InitChunker(<<>>, chunk_size)
    /\ InitProcessor(<<>>, chunk_size)
    /\ InitFeedback

Init == InitRetriever /\ InitRegistry /\ InitLibrary

\* A search runs concurrently with load_index on one retriever (the load
\* run by the executor's worker, or called directly): any enabled step of
\* either thread may come next.
SpecLoaders == {1}

Next ==
    \/ Construct
    \/ ConstructReturn
    \/ \E t \in SpecLoaders : LoadCall(t)
    \/ \E t \in SpecLoaders : ExecutorRun(t)
    \/ \E t \in SpecLoaders \cup {CtorThread} : LoadStep(t)
    \/ SearchCall
    \/ SearchStep

Spec == Init /\ [][Next]_vars

\* Concurrent load_index calls alone (background and direct).
LoadNext ==
    \/ Construct
    \/ ConstructReturn
    \/ \E t \in Loaders : LoadCall(t)
    \/ \E t \in Loaders : ExecutorRun(t)
    \/ \E t \in AllLoaders : LoadStep(t)

LoadSpec == Init /\ [][LoadNext]_vars

\* The background load with its scheduling. Loader 1 is the pool's worker
\* thread: it runs the task __init__ submitted; the other loaders call
\* load_index directly. A thread that can take a step takes one, and a
\* thread waiting for the loading lock gets it when it is released often
\* enough (threading.Lock wakes a waiter on release).
Worker == 1

BackgroundNext ==
    \/ Construct
    \/ ConstructReturn
    \/ ExecutorRun(Worker)
    \/ \E t \in Loaders \ {Worker} : LoadCall(t)
    \/ \E t \in AllLoaders : LoadStep(t)

BackgroundSpec ==
    /\ Init /\ [][BackgroundNext]_vars
    /\ WF_vars(ExecutorRun(Worker))
    /\ \A t \in AllLoaders : WF_vars(LoadStep(t)) /\ SF_vars(LoadAcquire(t))

\* A rebuild (scripts/build_vector_store.py:43-46): the constructor has
\* submitted the background load of the artifacts it found, and build_index
\* runs on the instance while the pool's worker runs that load; build_index
\* does not take the loading lock.
BuildRaceNext ==
    \/ Construct
    \/ ConstructReturn
    \/ ExecutorRun(Worker)
    \/ LoadStep(Worker)
    \/ LoadStep(CtorThread)
    \/ BuildCall
    \/ BuildStep

BuildRaceSpec == Init /\ [][BuildRaceNext]_vars

\* Calls made one after the other by a single client: a call starts, and a
\* step is taken, only while no other call on the retriever is under way.
LoadersQuiet(t) ==
    \A u \in AllLoaders \ {t} : l_pc[u] = "idle"
SearcherQuiet == s_pc = "idle"
BuilderQuiet == b_pc = "idle"

SeqNext ==
    \/ Construct
    \/ ConstructReturn
    \/ \E t \in Loaders :
          /\ LoadersQuiet(t) /\ SearcherQuiet /\ BuilderQuiet
          /\ (LoadCall(t) \/ ExecutorRun(t))
    \/ \E t \in AllLoaders :
          /\ LoadersQuiet(t) /\ SearcherQuiet /\ BuilderQuiet
          /\ LoadStep(t)
    \/ /\ LoadersQuiet(-1) /\ BuilderQuiet
       /\ (SearchCall \/ SearchStep)
    \/ /\ LoadersQuiet(-1) /\ SearcherQuiet
       /\ (BuildCall \/ BuildStep)

SeqSpec == Init /\ [][SeqNext]_vars

\* Threads call get_retriever and preload_retrievers concurrently.
RegistryNext ==
    \/ \E t \in Callers, c \in Countries : GetRetrieverCall(t, c)
    \/ \E t \in Callers, cs \in PreloadLists : PreloadCall(t, cs)
    \/ \E t \in Callers : CacheCheck(t)
    \/ \E t \in Callers : CacheConstruct(t)
    \/ \E t \in Callers : CacheStore(t)
    \/ \E t \in Callers : CacheReturn(t)
    \/ \E t \in Callers : CallerDone(t)

RegistrySpec == Init /\ [][RegistryNext]_vars

\* get_retriever and preload_retrievers called one after the other: a call
\* starts, and takes its steps, only while no other caller is inside one.
CallersQuiet(t) ==
    \A u \in Callers \ {t} : g_pc[u] = "idle"

RegistrySeqNext ==
    \E t \in Callers :
        /\ CallersQuiet(t)
        /\ \/ \E c \in Countries : GetRetrieverCall(t, c)
           \/ \E cs \in PreloadLists : PreloadCall(t, cs)
           \/ CacheCheck(t)
           \/ CacheConstruct(t)
           \/ CacheStore(t)
           \/ CacheReturn(t)
           \/ CallerDone(t)

RegistrySeqSpec == Init /\ [][RegistrySeqNext]_vars

\* Startup and after: preload_retrievers and get_retriever are called one
\* after the other while the executor's workers run the submitted loads;
\* any subset of the countries has persisted artifacts.
PreloadInit ==
    /\ InitRetriever /\ diskIndex = AbsentIndexFile
    /\ InitCallers
    /\ \E files \in [Countries -> BOOLEAN] : InitPool(files)
    /\ InitLibrary

PreloadNext ==
    \/ RegistrySeqNext
    \/ WorkerStart
    \/ \E task \in ex_running : WorkerFinish(task)

PreloadSpec == PreloadInit /\ [][PreloadNext]_vars

\* The tasks the constructors can submit: load_index of an instance.
Tasks == Countries \X (1..NumCallers)

\* PreloadSpec with the pool's scheduling: an idle worker thread of
\* ThreadPoolExecutor takes the oldest queued task, and the load_index a
\* worker runs returns (its body catches every exception and the loading
\* lock of its retriever is released by whoever holds it).
PoolFairSpec ==
    /\ PreloadSpec
    /\ WF_vars(WorkerStart)
    /\ \A task \in Tasks : WF_vars(WorkerFinish(task))

\* The life of a cached retriever: it is constructed and its load runs,
\* then get_retriever / preload_retrievers, search and direct load_index
\* calls are made one after the other (no build_index).
RetrieverQuiet ==
    LoadersQuiet(-1) /\ SearcherQuiet /\ BuilderQuiet /\ ctor_pc # "sync_load"

RegistryQuiet == \A t \in Callers : g_pc[t] = "idle"

CachedNext ==
    \/ /\ RegistryQuiet
       /\ \/ Construct
          \/ ConstructReturn
          \/ /\ LoadersQuiet(Worker) /\ SearcherQuiet
             /\ ExecutorRun(Worker)
          \/ \E t \in Loaders \ {Worker} :
                /\ LoadersQuiet(t) /\ SearcherQuiet
                /\ LoadCall(t)
          \/ \E t \in AllLoaders :
                /\ LoadersQuiet(t) /\ SearcherQuiet
                /\ LoadStep(t)
          \/ /\ LoadersQuiet(-1)
             /\ (SearchCall \/ SearchStep)
    \/ /\ RetrieverQuiet
       /\ RegistrySeqNext

CachedSpec == Init /\ [][CachedNext]_vars

\* Threads construct retrievers concurrently, each constructor calling
\* get_embedding_model; no artifact is persisted.
EmbeddingInit == Init /\ diskIndex = AbsentIndexFile

EmbeddingNext ==
    \/ \E t \in Callers, c \in Countries : GetEmbeddingModelCall(t, c)
    \/ \E t \in Callers : EmbCheck(t)
    \/ \E t \in Callers : EmbConstruct(t)
    \/ \E t \in Callers : EmbStore(t)
    \/ \E t \in Callers : EmbReturn(t)

EmbeddingSpec == EmbeddingInit /\ [][EmbeddingNext]_vars

\* clean_text and split_into_chunks applied to every text of at most MaxLen
\* characters, with every chunk_size up to MaxSize.
ChunkInit ==
    /\ InitRetriever /\ diskIndex = AbsentIndexFile
    /\ InitRegistry
    /\ InitEmbedding
    /\ InitProcessor(<<>>, chunk_size)
    /\ InitFeedback
    /\ \E text \in Texts(MaxLen), size \in 1..MaxSize : InitChunker(text, size)

ChunkNext ==
    \/ CleanText
    \/ SplitIntoChunks

ChunkSpec == ChunkInit /\ [][ChunkNext]_vars

\* A sentence of n characters: letters, then the sentence end.
SentenceOfLen(n) == [i \in 1..n |-> IF i = n THEN "." ELSE "a"]

\* The lengths of sentences of about 200 characters; three of the
\* shortest make a text of chunk_size characters or less.
SentenceLengths == {150, 166, 167, 200, 220}

\* The texts of three sentences with lengths of L, one space between them.
ThreeSentenceTexts(L) ==
    {SentenceOfLen(l1) \o <<" ">> \o SentenceOfLen(l2) \o <<" ">>
        \o SentenceOfLen(l3) : l1, l2, l3 \in L}

\* split_into_chunks with the default chunk_size applied to every text of
\* three sentences of about 200 characters.
GreedyInit ==
    /\ InitRetriever /\ diskIndex = AbsentIndexFile
    /\ InitRegistry
    /\ InitEmbedding
    /\ InitProcessor(<<>>, chunk_size)
    /\ InitFeedback
    /\ \E text \in ThreeSentenceTexts(SentenceLengths) :
          InitChunker(text, chunk_size)

GreedyNext == SplitIntoChunks

GreedySpec == GreedyInit /\ [][GreedyNext]_vars

\* process_documents applied to every batch of at most MaxDocs documents.
ProcessInit ==
    /\ InitRetriever /\ diskIndex = AbsentIndexFile
    /\ InitRegistry
    /\ InitEmbedding
    /\ InitChunker(<<>>, chunk_size)
    /\ \E documents \in BatchesUpTo(MaxDocs), size \in DocSizes :
          InitProcessor(documents, size)
    /\ InitFeedback

ProcessNext == ProcessDocuments

ProcessSpec == ProcessInit /\ [][ProcessNext]_vars

\* Feedback requests arriving at the server while query logs are created.
FeedbackNext ==
    \/ CreateQueryLog
    \/ \E r \in Requests : FeedbackStep(r)

FeedbackSpec == Init /\ [][FeedbackNext]_vars

\* ------------------------------------------------------------------ claims
\* The chunk list that belongs to an index: the list of the same build.
ListOf(ix) == ChunkList(ix.gen, ix.ntotal)

\* The result loop of the running search has read self.chunks.
SearchHasReadChunks ==
    \/ s_pc = "map_get"
    \/ s_pc \in {"map_test", "returned"} /\ s_i > 1

\* C1: a search never uses a half-swapped pair: the chunk list its result
\* loop reads is the list of the index it searched, and the index is never
\* found absent between the readiness check and index.search.
C1_SearchSeesWholePair ==
    /\ s_err # "AttributeError"
    /\ SearchHasReadChunks => s_seen = ListOf(s_used)

\* C2: at no time are two load_index invocations inside the load body
\* (between taking and releasing the lock) of the same retriever.
C2_OneLoadInBody ==
    Cardinality({t \in AllLoaders : l_pc[t] \in LoadBody}) <= 1

\* C2 witness: one load is inside the body while another has called
\* load_index and waits for the lock.
C2_Witness ==
    \E t, u \in AllLoaders :
        t # u /\ l_pc[t] \in LoadBody /\ l_pc[u] = "acquire"

\* C3: when build_index has failed on a retriever that had an index when
\* build_index was called, self.index and self.chunks are still that index
\* and its chunk list.
C3_FailedBuildLeavesState ==
    (b_pc = "failed" /\ b_before[1] # NoIndex) => <<index, chunks>> = b_before

\* C4: right after a successful load_index or build_index the index holds
\* as many vectors as the chunk list has entries (a persisted pair of
\* different sizes is not installed).
C4_SizesAgreeAfterSuccess ==
    ((\E t \in AllLoaders : l_pc[t] = "loaded") \/ b_pc = "built")
        => index.ntotal = Len(chunks)

\* No two entries of a result list are the same chunk.
NoDuplicates(results) ==
    \A i, j \in 1..Len(results) :
        WithScore(results[i], NoScore) = WithScore(results[j], NoScore) => i = j

\* C5: on a Ready retriever with n chunks, search with top_k > n returns
\* exactly n results, none of them twice.
C5_TopKBeyondSize ==
    (/\ s_pc = "returned"
     /\ index # NoIndex /\ index = s_used /\ chunks = ListOf(index)
     /\ s_k > index.ntotal)
        => (Len(s_results) = index.ntotal /\ NoDuplicates(s_results))

\* C6: a search that got an ordinal outside 0..len(chunks)-1 from the index
\* does not return results: it fails.
C6_OutOfRangeOrdinalFails ==
    s_pc = "returned" =>
        \A i \in 1..Len(s_labels) :
            s_labels[i].idx \in 0..(Len(chunks) - 1)

\* An `except h` clause catches a raised exception of class e: Exception
\* is the base class of the others.
Handles(h, e) == h = e \/ h = "Exception"
\* The classes search raises at retriever.py:233 and 240.
OtherFailures == {"AttributeError", "IndexError"}

\* C7: a search on an absent index waits no longer than max_wait, and the
\* error it then raises is of a class that tells it apart from the other
\* failures of search.
C7_NotReadyErrorIsDistinct ==
    /\ s_waited <= max_wait
    /\ (s_pc = "raised" /\ s_err \notin OtherFailures)
          => \A e \in OtherFailures : ~Handles(s_err, e)

\* C8: when load_index has failed (its except branch has run), the index
\* is absent and the chunk list is empty.
C8_FailedLoadLeavesEmpty ==
    \A t \in AllLoaders :
        l_pc[t] = "release_fail" => (index = NoIndex /\ chunks = <<>>)

\* C8 witness: a load failed at the metadata read, after it had installed
\* the index it read, and its except branch has run.
C8_Witness ==
    \E t \in AllLoaders : l_pc[t] = "release_fail" /\ l_failAt[t] = "meta"

\* C9: a load_index call made while another load of the same retriever is
\* in flight does not read the persisted index again.
C9_OverlappingLoadReadsOnce ==
    \A t \in AllLoaders : l_overlap[t] => ~l_didRead[t]

\* C10: for each country at most one FAISSRetriever is ever constructed,
\* and callers of get_retriever with the same country get the same instance.
C10_OneInstancePerKey ==
    /\ \A c \in Countries : Cardinality(created[c]) <= 1
    /\ \A t, u \in Callers :
          (/\ g_pc[t] = "done" /\ g_pc[u] = "done"
           /\ g_op[t] = "get" /\ g_op[u] = "get"
           /\ g_key[t] = g_key[u])
              => g_ret[t] = g_ret[u]


\* C11: in a sequence of get_retriever and preload_retrievers calls, an
\* entry of the cache is never replaced once it is set, and a get_retriever
\* that returns hands out the instance the cache holds for its country.
C11_CachedEntryIsKept ==
    [][/\ \A c \in Countries : cache[c] # 0 => cache'[c] = cache[c]
       /\ \A t \in Callers :
             (g_pc'[t] = "done" /\ g_op'[t] = "get")
                => (g_ret'[t] # 0 /\ g_ret'[t] = cache'[g_key'[t]])]_vars

\* C11 witness: get_retriever has returned the cached instance of a country
\* cached by an earlier call, without constructing anything itself.
C11_Witness ==
    \E t \in Callers :
        /\ g_pc[t] = "done" /\ g_op[t] = "get"
        /\ g_new[t] = 0 /\ g_ret[t] # 0 /\ g_ret[t] = cache[g_key[t]]


\* C12: whatever threads call get_embedding_model at first use, a single
\* EmbeddingModel is constructed, and every retriever holds that one.
C12_OneEmbeddingModel ==
    /\ Cardinality(emb_created) <= 1
    /\ \A c, d \in Countries :
          (emb_of[c] # 0 /\ emb_of[d] # 0) => emb_of[c] = emb_of[d]


\* The step with which __init__ returns.
ConstructorReturns == ctor_pc # "done" /\ ctor_pc' = "done"

\* No load_index and no build_index call is under way or has been made.
NothingCalled ==
    /\ \A t \in AllLoaders : l_pc[t] = "idle"
    /\ b_pc = "idle" /\ nbuilds = 0

\* A retriever constructed without both artifacts has no load submitted and
\* keeps index absent and chunks empty while nothing is called on it.
StaysNotStarted ==
    (~ArtifactsExist /\ NothingCalled)
        => (NothingCalled' => (/\ bgQueue' = 0
                               /\ index' = NoIndex /\ chunks' = <<>>))

Submitted ==
    {ex_queue[i] : i \in 1..Len(ex_queue)} \cup ex_running \cup ex_finished

\* The countries of a list.
Range(cs) == {cs[i] : i \in 1..Len(cs)}

\* C14 as stated: when preload_retrievers has returned, every country of
\* its list has a cache entry whose load task was submitted to the executor
\* if the country has persisted artifacts, and the call ran no load itself.
C14_PreloadCachesAndDoesNotWait ==
    \A t \in Callers :
        (g_pc[t] = "done" /\ g_op[t] = "preload") =>
            /\ g_sync[t] = {}
            /\ \A c \in Range(g_list[t]) :
                  /\ cache[c] # 0
                  /\ has_files[c] => <<c, cache[c]>> \in Submitted

\* C14 amended: every country of the list has a cache entry; with
\* persisted artifacts its load was submitted to the executor, or was run
\* by the constructor itself where the executor refused the task; the call
\* waited for no load other than those.
C14_PreloadWaitsOnlyInFallback ==
    \A t \in Callers :
        (g_pc[t] = "done" /\ g_op[t] = "preload") =>
            /\ g_sync[t] \cap Submitted = {}
            /\ \A c \in Range(g_list[t]) :
                  /\ cache[c] # 0
                  /\ has_files[c] =>
                        <<c, cache[c]>> \in Submitted \cup sync_loaded

\* C14 witness: preload_retrievers has returned for the three default
\* countries, all with artifacts, while none of the three loads it
\* submitted has been started by a worker.
C14_Witness ==
    \E t \in Callers :
        /\ g_pc[t] = "done" /\ g_op[t] = "preload"
        /\ g_list[t] = DefaultCountries
        /\ Len(ex_queue) = 3 /\ ex_running = {} /\ ex_finished = {}


\* Fractions with positive denominators: a >= b, and a in (0, 1].
FracGeq(a, b) == a.num * b.den >= b.num * a.den
FracInUnit(a) == a.den > 0 /\ 0 < a.num /\ a.num <= a.den

\* C15: the results search has collected are in non-increasing order of
\* similarity_score, and every similarity_score lies in (0, 1].
C15_ResultsRankedBySimilarity ==
    /\ \A i, j \in 1..Len(s_results) :
          i < j => FracGeq(s_results[i].similarity_score,
                           s_results[j].similarity_score)
    /\ \A i \in 1..Len(s_results) :
          FracInUnit(s_results[i].similarity_score)

\* C15 witness: a search has returned two results, the second with a
\* strictly smaller similarity than the first.
C15_Witness ==
    /\ s_pc = "returned" /\ Len(s_results) >= 2
    /\ ~FracGeq(s_results[2].similarity_score, s_results[1].similarity_score)


\* The chunks split_into_chunks returned, as a set of positions.
ChunkIds == 1..Len(c_chunks)

\* C16: of the chunks split_into_chunks returns, every one that holds two
\* or more sentences is at most chunk_size long, and every one longer than
\* chunk_size is a single whole sentence of the text.
C16_LongChunkIsOneSentence ==
    c_pc = "split" =>
        \A i \in ChunkIds :
            /\ Len(ReSplit(c_chunks[i])) >= 2 => Len(c_chunks[i]) <= c_size
            /\ Len(c_chunks[i]) > c_size =>
                  /\ Len(ReSplit(c_chunks[i])) = 1
                  /\ \E k \in 1..Len(ReSplit(c_text)) :
                        c_chunks[i] = Strip(ReSplit(c_text)[k])

\* A text longer than chunk_size was split into several chunks, one of
\* them a single sentence longer than chunk_size.
OversizeChunkReturned ==
    /\ c_pc = "split" /\ Len(c_text) > c_size /\ Len(c_chunks) >= 2
    /\ \E j \in ChunkIds : Len(c_chunks[j]) > c_size

\* C16 witness: a text longer than chunk_size was split into several
\* chunks, one of them holding two sentences.
C16_Witness ==
    /\ c_pc = "split" /\ Len(c_text) > c_size /\ Len(c_chunks) >= 2
    /\ \E i \in ChunkIds : Len(ReSplit(c_chunks[i])) >= 2


\* C17: split_into_chunks closes a chunk before a sentence only when the
\* chunk, a space and the sentence together exceed chunk_size; so a text
\* of three sentences of about 200 characters, with chunk_size 500, comes
\* back whole when it is at most 500 long, and otherwise as two chunks,
\* sentences 1 and 2 joined and sentence 3.
C17_GreedyPacking ==
    c_pc = "split" =>
        /\ \A j \in 1..(Len(c_chunks) - 1) :
              Len(c_chunks[j]) + Len(ReSplit(c_chunks[j + 1])[1]) + 1 > c_size
        /\ LET s == ReSplit(c_text)
           IN Len(s) = 3 =>
                 IF Len(c_text) <= c_size
                 THEN c_chunks = <<c_text>>
                 ELSE c_chunks = <<s[1] \o <<" ">> \o s[2], s[3]>>

\* Three sentences that fit chunk_size together came back as one chunk.
ShortTextReturnedWhole ==
    /\ c_pc = "split" /\ c_size = chunk_size
    /\ Len(ReSplit(c_text)) = 3 /\ Len(c_text) <= c_size
    /\ Len(c_chunks) = 1

\* C17 witness: a text of three sentences longer than 500 characters came
\* back as two chunks, the first holding two sentences.
C17_Witness ==
    /\ c_pc = "split" /\ c_size = chunk_size
    /\ Len(ReSplit(c_text)) = 3 /\ Len(c_text) > c_size
    /\ Len(c_chunks) = 2 /\ Len(ReSplit(c_chunks[1])) = 2


\* The text made of the pieces joined by single spaces.
RECURSIVE JoinWithSpace(_)
JoinWithSpace(pieces) ==
    IF pieces = <<>> THEN <<>>
    ELSE IF Len(pieces) = 1 THEN pieces[1]
    ELSE pieces[1] \o <<" ">> \o JoinWithSpace(Tail(pieces))

\* C18: for a cleaned text, the chunks of split_into_chunks joined by
\* single spaces hold the sentences of the text, each once and in order;
\* a text of at most chunk_size characters comes back as the one chunk
\* [text].
C18_ChunksKeepSentences ==
    (c_pc = "split" /\ c_cleaned >= 1) =>
        /\ ReSplit(JoinWithSpace(c_chunks)) = ReSplit(c_text)
        /\ Len(c_text) <= c_size => c_chunks = <<c_text>>

\* C18 witness: a cleaned text of three sentences, longer than chunk_size,
\* was split into at least two chunks.
C18_Witness ==
    /\ c_pc = "split" /\ c_cleaned >= 1
    /\ Len(c_text) > c_size
    /\ Len(ReSplit(c_text)) >= 3 /\ Len(c_chunks) >= 2


\* C19: clean_text applied to a text clean_text returned gives that text
\* back: clean_text(clean_text(x)) = clean_text(x).
C19_CleanTextIdempotent ==
    c_cleaned >= 2 => c_text = c_prev


\* The chunks of all_chunks that carry the title of a document.
ChunksOf(doc) ==
    LET IsOfDoc(chunk) == chunk.title = doc["title"]
    IN SelectSeq(p_out, IsOfDoc)

\* C20: when process_documents has returned, the chunks of every document
\* passed to it are numbered 0, 1, ... in the order of the document's
\* text, at least one of them, each carrying their number as total_chunks
\* and the document's title, section, source_url, country and category.
C20_ChunkNumbering ==
    p_pc = "returned" =>
        \A d \in 1..Len(p_docs) :
            LET doc == p_docs[d]
                mine == ChunksOf(doc)
            IN /\ Len(mine) >= 1
               /\ [k \in 1..Len(mine) |-> mine[k].text]
                     = split_into_chunks(clean_text(doc["content"]), p_size)
               /\ \A k \in 1..Len(mine) :
                     /\ mine[k].chunk_id = k - 1
                     /\ mine[k].total_chunks = Len(mine)
                     /\ mine[k].title = doc["title"]
                     /\ mine[k].section = Get(doc, "section", <<>>)
                     /\ mine[k].source_url = Get(doc, "source_url", <<>>)
                     /\ mine[k].country = doc["country"]
                     /\ mine[k].category = doc["category"]

\* C20 witness: process_documents has returned the chunks of two
\* documents, the first with at least two chunks, one of the two without
\* the optional keys.
C20_Witness ==
    /\ p_pc = "returned" /\ Len(p_docs) = 2
    /\ Len(ChunksOf(p_docs[1])) >= 2
    /\ \E d \in 1..2 : DOMAIN p_docs[d] = RequiredKeys


\* C21: every chunk process_documents returns has a non-empty text,
\* whatever the content of the document, an empty content included.
C21_ChunkTextNonEmpty ==
    p_pc = "returned" =>
        \A i \in 1..Len(p_out) : p_out[i].text # <<>>


\* A document of the batch lacks a required key.
SomeDocumentMalformed ==
    \E d \in 1..Len(p_docs) : FirstMissing(p_docs[d]) # "none"

\* C22: a batch with a document that lacks a required key makes
\* process_documents fail with DocumentFormatError and return no chunk;
\* it never returns for such a batch.
C22_MalformedDocumentAborts ==
    /\ (p_pc # "docs" /\ SomeDocumentMalformed) =>
          (p_pc = "raised" /\ p_out = <<>>)
    /\ p_pc = "raised" => p_err = "DocumentFormatError"


\* The persisted pair is the one a build_index of this run saved: both
\* artifacts readable, written by the same successful build.
BuiltPairOnDisk ==
    /\ diskIndex.state = "ok" /\ diskMeta.state = "ok"
    /\ diskIndex.ix.gen >= 1
    /\ diskMeta.list = ListOf(diskIndex.ix)

FeedbackRejectedUnknownQuery ==
    \E r \in Requests :
        f_pc[r] = "respond" /\ f_status[r] = 404 /\ feedback = <<>>


\* The loads waiting in the pool's queue.
Queued == {ex_queue[i] : i \in 1..Len(ex_queue)}

\* C25: at most max_workers (two) background loads run at any moment,
\* whatever was preloaded; a load that waits in the pool's queue is
\* eventually started.
C25_TwoLoadsAtATime ==
    /\ [](Cardinality(ex_running) <= max_workers)
    /\ \A task \in Tasks :
          (task \in Queued) ~> (task \in ex_running \cup ex_finished)

\* Three loads were submitted: two are running and the third waits.
C25_Witness ==
    /\ Cardinality(ex_running) = max_workers
    /\ Len(ex_queue) = 1


\* The retriever's states after a load: Ready and Failed.
Ready == index # NoIndex /\ chunks = ListOf(index)
Failed == index = NoIndex /\ chunks = <<>>

\* C26: a submitted background load is eventually run and, once begun,
\* reaches its end (it is never left in flight); at the moment it ends the
\* retriever is Ready when it succeeded and Failed when it failed.
C26_BackgroundLoadFinishes ==
    /\ (bgQueue > 0) ~> (l_pc[Worker] \in {"loaded", "failed"})
    /\ (l_pc[Worker] \in LoadInFlight) ~> (l_pc[Worker] \in {"loaded", "failed"})
    /\ [](l_pc[Worker] = "release_ok" => Ready)
    /\ [](l_pc[Worker] = "release_fail" => Failed)

\* The background load has failed at the metadata read while another
\* thread waits for the loading lock.
C26_Witness ==
    /\ l_pc[Worker] = "release_fail" /\ l_failAt[Worker] = "meta"
    /\ \E t \in Loaders \ {Worker} : l_pc[t] = "acquire"

\* The background load has succeeded.
BackgroundLoadSucceeded == l_pc[Worker] = "loaded" /\ Ready


\* C27: a step of search changes neither self.index nor self.chunks (nor
\* the persisted artifacts), however many searches run; no stored chunk
\* ever carries a similarity_score, while every returned result does.
C27_SearchLeavesState ==
    /\ [][searchVars' # searchVars => UNCHANGED <<memVars, diskVars>>]_vars
    /\ [](\A i \in 1..Len(chunks) : chunks[i].similarity_score = NoScore)
    /\ [](\A i \in 1..Len(s_results) : s_results[i].similarity_score # NoScore)

\* A search has returned two scored results taken from the stored chunks.
C27_Witness ==
    /\ s_pc = "returned"
    /\ Len(s_results) = 2
    /\ \A i \in 1..2 : WithScore(s_results[i], NoScore) \in Range(chunks)


\* C28: after build_index has returned successfully, self.index and
\* self.chunks are not assigned again by the background load the
\* constructor submitted: they stay the built index and the built list.
C28_BuildSurvivesLoad ==
    [][b_pc = "built" => UNCHANGED memVars]_vars


\* C29: the index and the chunk list that one load_index installs are of
\* the same build, also when the load follows a save_index that failed
\* between its two writes.
C29_LoadInstallsOneBuild ==
    \A t \in AllLoaders : l_pc[t] = "loaded" => chunks = ListOf(index)


\* The retriever is constructed, holds no index, and no load of it is
\* queued or under way.
NothingScheduled ==
    /\ constructed /\ index = NoIndex /\ bgQueue = 0
    /\ LoadersQuiet(-1) /\ BuilderQuiet

\* C30: once the load of a retriever has failed nothing schedules another:
\* the constructor is the only one to submit a load, and as long as nobody
\* calls load_index or build_index the index stays absent whatever
\* get_retriever, preload_retrievers and search do; the cache keeps its
\* entry and get_retriever returns it; a search on the absent index never
\* gets to the query, it raises after waiting max_wait.
C30_FailedLoadIsNotRetried ==
    /\ [][constructed => bgQueue' <= bgQueue]_vars
    /\ [][(NothingScheduled /\ LoadersQuiet(-1)')
             => (index' = NoIndex /\ bgQueue' = 0)]_vars
    /\ [][/\ \A c \in Countries : cache[c] # 0 => cache'[c] = cache[c]
          /\ \A t \in Callers :
                (g_pc'[t] = "done" /\ g_op'[t] = "get")
                   => g_ret'[t] = cache'[g_key'[t]]]_vars
    /\ []((s_pc # "idle" /\ index = NoIndex)
             => (s_pc \in {"wait", "check", "raised"}
                 /\ s_err \in {"none", "Exception"}))
    /\ []((s_pc = "raised" /\ s_err = "Exception")
             => (index = NoIndex /\ s_waited >= max_wait))

\* The artifacts exist, so a load was run, and it failed; get_retriever has
\* handed out a cached instance; the search made afterwards has waited
\* max_wait and raised.
C30_Witness ==
    /\ NothingScheduled /\ ArtifactsExist
    /\ \E c \in Countries : cache[c] # 0
    /\ s_pc = "raised" /\ s_err = "Exception" /\ s_waited = max_wait

====
